---------------------------- MODULE Spec2Model ----------------------------
(***************************************************************************)
(* Model of the event reactor engine                                       *)
(* (src/src/salt/base/ext/_engines/event_reactor.py): the context store    *)
(* and its context_handler hook, the registration loop of start, and the   *)
(* on_event callback that start builds for every mapping; and of the      *)
(* settings functions of the stn execution module                          *)
(* (src/src/salt/base/ext/_modules/stn11xx.py) talking to an STN device.   *)
(*                                                                         *)
(* Five specifications share the variables:                                *)
(*   Spec      start followed by two invocations of registered callbacks,  *)
(*             interleaved at every call on_event makes to                 *)
(*             keyword_resolve and to edmp.process and at every operation  *)
(*             of the context hook on the shared dict;                     *)
(*   SpecReg   start alone, over mappings with every set of match keys;    *)
(*   SpecCtx   sequential calls of the context_handler hook;               *)
(*   SpecConc  two context_handler calls interleaved statement by          *)
(*             statement (one thread each);                                *)
(*   SpecStn   two callers of the stn settings functions, interleaved at   *)
(*             every command sent to the device.                           *)
(***************************************************************************)
EXTENDS Naturals, Sequences, FiniteSets, TLC

VARIABLES
    context,    \* the module-level dict `context` (key -> sub-mapping)
    ctxObj,     \* which dict object is stored under each key of context
    mappings,   \* the list handed to start (its stored action templates included)
    phase,      \* where start is: "init", "running" (inside edmp.run) or "failed"
    matchers,   \* what start handed to edmp.register_event_matcher, in order
    firing,     \* per invoking thread: its invocation of an on_event callback so far
    lastOp,     \* the operation that produced the current state
    call,       \* the arguments of the last context_handler call
    ret,        \* what that call returned
    tpc,        \* per thread: the statement of context_handler it is about to run
    targ,       \* per thread: the arguments of its context_handler call
    tref,       \* per thread: the object its `context[key]` expression evaluated to
    startup,    \* the calls start made and the startup step that raised, if any
    device,     \* the STN device: its PowerSave configuration and echo setting
    stn         \* SpecStn: per caller, its call of an stn settings function so far

vars == <<context, ctxObj, mappings, phase, matchers, firing, lastOp, call, ret,
          tpc, targ, tref, startup, device, stn>>

engineVars == <<mappings, phase, matchers, firing, startup>>
threadVars == <<tpc, targ, tref>>
stnVars == <<device, stn>>

----------------------------------------------------------------------------
(* Bounds and the small sets inputs are drawn from.                        *)

\* Longest list of mappings handed to start.
MaxMappings == 2

\* Python's None.
None == "<None>"

Keys == {"k1", "k2"}
SubKeys == {"a", "b"}
Vals == {"v1", "v2"}

\* The empty dict {}.
EmptyDict == [s \in {} |-> None]

\* Every dict over the given keys with values from the given set.
Dicts(keys, vals) == UNION {[d -> vals] : d \in SUBSET keys}

\* The keyword arguments a context_handler call can carry.
Kwargs == Dicts(SubKeys, Vals)

\* A keyword value that is itself a dict, as in context_handler("k1",
\* a={"x": "v1"}): **kwargs takes any Python object as a value.
MappingVals == {"{x: v1}"}

IsMapping(v) == v \in MappingVals

AnyKwargs == Dicts(SubKeys, Vals \cup MappingVals)

----------------------------------------------------------------------------
(* The context store: event_reactor.py lines 15 and 45-56.                 *)

\* dict.update(kwargs): the keys of kwargs are overwritten, the rest kept.
DictReplace(d, kwargs) == kwargs

DictUpdate(d, kwargs) ==
    [s \in (DOMAIN d) \cup (DOMAIN kwargs) |->
        IF s \in DOMAIN kwargs THEN kwargs[s] ELSE d[s]]

\* context[key] = value
SetItem(ctx, key, value) ==
    [k \in (DOMAIN ctx) \cup {key} |-> IF k = key THEN value ELSE ctx[k]]

\* `if key != None:` of context_handler.
KeyGivenAlways(key) == TRUE

KeyGiven(key) == key # None

\* context_handler(key, **kwargs) run without interruption: the store after it.
context_handler(ctx, key, kwargs) ==
    IF KeyGiven(key)
    THEN LET created == IF key \notin DOMAIN ctx
                        THEN SetItem(ctx, key, EmptyDict)
                        ELSE ctx
         IN  SetItem(created, key, DictUpdate(created[key], kwargs))
    ELSE ctx

----------------------------------------------------------------------------
(* Sequential calls of the hook.                                           *)

NoCall == [key |-> None, kwargs |-> EmptyDict]

\* The threads of the message processor that invoke callbacks.
Firings == {"A", "B"}

\* A thread that has invoked no callback. An invocation is the callback and
\* its arguments, the operation it makes next (pc) for action i, the message
\* it holds for edmp.process, the object its hook's `context[key]` evaluated
\* to, the calls made so far and whether an exception has left on_event.
NoFiring == [cb |-> 0, event |-> None, match |-> None, pc |-> "idle", i |-> 0,
             message |-> [handler |-> None, key |-> None, sub |-> None, arg |-> None],
             ref |-> None, trace |-> << >>, raised |-> FALSE]

NotStarted == [fault |-> "none", calls |-> << >>]
NoStnCall == [fn |-> "none"]

EngineIdle ==
    /\ mappings = << >>
    /\ phase = "init"
    /\ matchers = << >>
    /\ firing = [f \in {} |-> NoFiring]
    /\ startup = NotStarted

\* The PowerSave triggers the settings functions of stn switch, by the key
\* power_config reports them under.
Triggers == {"uart_sleep", "uart_wake", "vl_sleep", "vl_wake", "vchg_wake"}

\* A device: whether it echoes commands, whether its power control pin is
\* inverted (pwr_ctrl), and which triggers are on.
Devices == [{"echo", "pwr_ctrl"} \cup Triggers -> BOOLEAN]

IdleDevice == [s \in {"echo", "pwr_ctrl"} \cup Triggers |-> FALSE]

StnIdle ==
    /\ device = IdleDevice
    /\ stn = NoStnCall

ThreadsIdle ==
    /\ tpc = [t \in {} |-> "done"]
    /\ targ = [t \in {} |-> NoCall]
    /\ tref = [t \in {} |-> None]

InitCtx ==
    /\ context = EmptyDict
    /\ ctxObj = EmptyDict
    /\ lastOp = "none"
    /\ call = NoCall
    /\ ret = None
    /\ EngineIdle
    /\ ThreadsIdle
    /\ StnIdle

ContextHandlerCall(key, kwargs) ==
    /\ context' = context_handler(context, key, kwargs)
    /\ ret' = context'
    /\ call' = [key |-> key, kwargs |-> kwargs]
    /\ lastOp' = "context_handler"
    /\ UNCHANGED <<ctxObj, engineVars, threadVars, stnVars>>

NextCtx ==
    \E key \in Keys \cup {None}, kwargs \in AnyKwargs : ContextHandlerCall(key, kwargs)

SpecCtx == InitCtx /\ [][NextCtx]_vars


\* C6: context merge is a merge, not a replace. Every context_handler call
\* with a key k leaves context[k] holding the call's value for each sub-key
\* the call supplied and the prior value for each sub-key it did not supply
\* (and no sub-key that neither had), creates k when it was missing, leaves
\* every other top-level key as it was, and returns the store as it is after
\* the merge. By induction over the calls, context[k] maps each sub-key to
\* the value of the last call that supplied it.
C6_MergeNotReplace ==
    [][(lastOp' = "context_handler" /\ call'.key # None) =>
        LET k == call'.key
            u == call'.kwargs
        IN  /\ DOMAIN context' = (DOMAIN context) \cup {k}
            /\ \A j \in (DOMAIN context) \ {k} : context'[j] = context[j]
            /\ \A s \in DOMAIN u :
                  s \in DOMAIN context'[k] /\ context'[k][s] = u[s]
            /\ \A s \in SubKeys \ DOMAIN u :
                  IF k \in DOMAIN context /\ s \in DOMAIN context[k]
                  THEN s \in DOMAIN context'[k] /\ context'[k][s] = context[k][s]
                  ELSE s \notin DOMAIN context'[k]
            /\ ret' = context']_vars

\* A call that supplied only "b" has left the earlier "a" of the same key in
\* place, beside another top-level key.
C6_Witness ==
    /\ lastOp = "context_handler"
    /\ call.key = "k1"
    /\ DOMAIN call.kwargs = {"b"}
    /\ DOMAIN context = {"k1", "k2"}
    /\ DOMAIN context["k1"] = {"a", "b"}
    /\ context["k1"]["a"] # context["k1"]["b"]
    /\ context["k2"] # EmptyDict

\* C14: no key of the context store ever holds a nested sub-mapping deeper
\* than one level. In every state reached through context_handler calls with
\* arbitrary keyword values, each context[k] is a mapping whose values are
\* not themselves mappings.
C14_NoNestedMapping ==
    \A k \in DOMAIN context :
        \A s \in DOMAIN context[k] : ~IsMapping(context[k][s])

\* C7: a merge with no key is a pure read. A context_handler call with
\* key=None, with or without keyword arguments, leaves the store as it was
\* and returns the full store.
C7_NoKeyPureRead ==
    [][(lastOp' = "context_handler" /\ call'.key = None) =>
        (context' = context /\ ret' = context)]_vars

\* A keyless call that carried keyword arguments returned a non-empty store.
C7_Witness ==
    /\ lastOp = "context_handler"
    /\ call.key = None
    /\ call.kwargs # EmptyDict
    /\ context # EmptyDict
    /\ ret = context

----------------------------------------------------------------------------
(* Two concurrent context_handler calls, one thread each. A thread switch  *)
(* can happen between any two operations on the shared dict, so each of    *)
(* the hook's operations on it is a step of its own.                       *)

Threads == {"t1", "t2"}

\* The stores a concurrent scenario starts from: k1 absent or present.
ConcStores == Dicts({"k1"}, Kwargs)

InitConc ==
    /\ context \in ConcStores
    /\ ctxObj = [k \in DOMAIN context |-> k]
    /\ lastOp = "none"
    /\ call = NoCall
    /\ ret = None
    /\ EngineIdle
    /\ tpc = [t \in Threads |-> "test_key"]
    /\ targ \in [Threads -> [key : Keys, kwargs : Kwargs \ {EmptyDict}]]
    /\ tref = [t \in Threads |-> None]
    /\ StnIdle

ThreadGoto(t, label) ==
    /\ tpc' = [tpc EXCEPT ![t] = label]
    /\ UNCHANGED <<engineVars, stnVars, call, ret, targ>>

\* if key != None:
TestKey(t) ==
    /\ tpc[t] = "test_key"
    /\ ThreadGoto(t, IF KeyGiven(targ[t].key) THEN "test_in" ELSE "return")
    /\ lastOp' = "test_key"
    /\ UNCHANGED <<context, ctxObj, tref>>

\* if not key in context:
TestIn(t) ==
    /\ tpc[t] = "test_in"
    /\ ThreadGoto(t, IF targ[t].key \notin DOMAIN context THEN "create" ELSE "load")
    /\ lastOp' = "test_in"
    /\ UNCHANGED <<context, ctxObj, tref>>

\* context[key] = {}: a new dict object, named after the thread that made it.
Create(t) ==
    /\ tpc[t] = "create"
    /\ context' = SetItem(context, targ[t].key, EmptyDict)
    /\ ctxObj' = SetItem(ctxObj, targ[t].key, t)
    /\ ThreadGoto(t, "load")
    /\ lastOp' = "create"
    /\ UNCHANGED tref

\* The subscript of `context[key].update(kwargs)`: the object now under key.
Load(t) ==
    /\ tpc[t] = "load"
    /\ tref' = [tref EXCEPT ![t] = ctxObj[targ[t].key]]
    /\ ThreadGoto(t, "update")
    /\ lastOp' = "load"
    /\ UNCHANGED <<context, ctxObj>>

\* .update(kwargs) on the object loaded: it shows in the store only while
\* that object is still the one stored under key.
Update(t) ==
    /\ tpc[t] = "update"
    /\ context' = IF ctxObj[targ[t].key] = tref[t]
                  THEN SetItem(context, targ[t].key,
                               DictUpdate(context[targ[t].key], targ[t].kwargs))
                  ELSE context
    /\ ThreadGoto(t, "return")
    /\ lastOp' = "update"
    /\ UNCHANGED <<ctxObj, tref>>

\* return context
Return(t) ==
    /\ tpc[t] = "return"
    /\ ThreadGoto(t, "done")
    /\ lastOp' = "return"
    /\ UNCHANGED <<context, ctxObj, tref>>

NextConc ==
    \E t \in Threads :
        \/ TestKey(t)
        \/ TestIn(t)
        \/ Create(t)
        \/ Load(t)
        \/ Update(t)
        \/ Return(t)

SpecConc == InitConc /\ [][NextConc]_vars

\* C4: concurrent merges to the same context key never lose updates. When
\* two context_handler calls on the same key with disjoint sub-keys have both
\* returned, context[key] holds the sub-keys written by both.
C4_NoLostUpdate ==
    (/\ \A t \in Threads : tpc[t] = "done"
     /\ targ["t1"].key = targ["t2"].key
     /\ (DOMAIN targ["t1"].kwargs) \cap (DOMAIN targ["t2"].kwargs) = {})
    => \A t \in Threads : \A s \in DOMAIN targ[t].kwargs :
          /\ targ[t].key \in DOMAIN context
          /\ s \in DOMAIN context[targ[t].key]
          /\ context[targ[t].key][s] = targ[t].kwargs[s]

----------------------------------------------------------------------------
(* Mappings, action messages and the two external capabilities on_event    *)
(* calls: keyword_resolve and edmp.process (module `messaging`).           *)

Events == {"e1", "e2"}
Matches == {None, "m1"}

\* An action message: the hook it names and the hook's arguments. arg is a
\* literal or one of the placeholders keyword_resolve substitutes.
Echo(arg) == [handler |-> "echo", key |-> None, sub |-> None, arg |-> arg]
ContextMsg(key, sub, arg) == [handler |-> "context", key |-> key, sub |-> sub, arg |-> arg]

\* mapping.get(name, default)
Get(mapping, name, default) == IF name \in DOMAIN mapping THEN mapping[name] ELSE default

\* The mappings a configuration is made of. A mapping is a dict: a key that
\* is not in its domain is absent from the configuration.
RuleSet ==
    { [startswith |-> "p1", condition |-> "", keyword_resolve |-> FALSE,
       actions |-> <<Echo("hello"), ContextMsg("k1", "a", "$event")>>],
      [regex |-> "p2", condition |-> "c2", keyword_resolve |-> TRUE,
       actions |-> <<ContextMsg("k1", "a", "$event"), Echo("$context"), Echo("$match")>>],
      [condition |-> "c3",
       actions |-> <<Echo("never")>>],
      [fnmatch |-> "p4", endswith |-> "q4", keyword_resolve |-> TRUE,
       actions |-> <<Echo("$match"), ContextMsg("k2", "b", "v1")>>],
      [fnmatch |-> "p5", condition |-> "c5",
       actions |-> <<Echo("$event"), ContextMsg("k1", "b", "v2")>>] }

\* The lists start can be handed: 1..MaxMappings different mappings.
Configs ==
    {c \in UNION {[1..n -> RuleSet] : n \in 1..MaxMappings} :
        \A i, j \in DOMAIN c : i # j => c[i] # c[j]}

\* Python truthiness of a condition: None and "" are falsy.
Truthy(condition) == condition # None /\ condition # ""

Raise == "<raise>"

\* The `keywords` argument on_event builds; `context` is the live store.
Keywords(event, match, ctx) == [event |-> event, match |-> match, context |-> ctx]

\* What a placeholder stands for; a lookup of a missing key raises.
Substitute(arg, keywords) ==
    CASE arg = "$event" -> keywords.event
      [] arg = "$match" -> keywords.match
      [] arg = "$context" ->
            IF "k1" \in DOMAIN keywords.context /\ "a" \in DOMAIN keywords.context["k1"]
            THEN keywords.context["k1"]["a"]
            ELSE Raise
      [] OTHER -> arg

\* keyword_resolve(message, keywords): the message with its placeholder
\* substituted (val), or an exception (raised). `fails` is the resolver
\* failing for a reason of its own.
keyword_resolve(message, keywords, fails) ==
    LET value == Substitute(message.arg, keywords)
    IN  IF fails \/ value = Raise
        THEN [raised |-> TRUE, val |-> message]
        ELSE [raised |-> FALSE, val |-> [message EXCEPT !.arg = value]]

\* copy.deepcopy(message): a reference to a new object with the same content.
\* A reference is [val: the content, shared: whether it is the stored template].
DeepcopyAlias(ref) == ref

Deepcopy(ref) == [ref EXCEPT !.shared = FALSE]

\* The stored template after keyword_resolve was handed ref. The resolver may
\* substitute in place, and then it writes through the reference it is given;
\* a resolver that builds a new message changes nothing whatever it is given,
\* so the model takes the resolver that writes through.
StoredAfter(ref, resolved) ==
    IF ref.shared /\ ~resolved.raised THEN resolved.val ELSE ref.val

\* edmp.process(message) calls the hook the message names: context_handler
\* when it names the context hook, with the message's key and keyword
\* arguments; the echo hook touches nothing of the store.
CallsContextHandler(message) == message.handler = "context"

HookKwargs(message) == [s \in {message.sub} |-> message.arg]

\* One call on_event made to an external capability: the condition (idx 0)
\* or an action's template handed to keyword_resolve, or a message handed to
\* edmp.process; how the call ended; the content of the store when it was made.
Entry(op, idx, arg, result, ctx) ==
    [op |-> op, idx |-> idx, arg |-> arg, result |-> result, ctx |-> ctx]

----------------------------------------------------------------------------
(* on_event: event_reactor.py lines 83-103.                                *)

\* on_event holds no lock, and neither does the context hook edmp.process
\* runs: between two calls to keyword_resolve and edmp.process, and between
\* two operations of the hook on the shared dict, another invocation may run.
\* One step of an invocation is one of these calls or operations together
\* with the statements up to the next one.

\* How a call to an external capability can end.
ConditionOutcomes == {"truthy", "falsy", "raise"}
CallOutcomes == {"ok", "raise"}

\* `if keyword_resolve(condition, ...): ... else: return`
ConditionIgnored(result) == TRUE

ConditionMet(result) == result = "truthy"

\* The step of `for message in mapping["actions"]`.
NextAction(i) == i + 1

\* `if mapping.get("keyword_resolve", False):`
ResolveAlways(mapping) == TRUE

ResolveEnabled(mapping) == Get(mapping, "keyword_resolve", FALSE)

\* An exception leaves on_event: nothing of lines 83-103 catches it.
Raised(st) == [st EXCEPT !.raised = TRUE, !.pc = "done"]

\* `for message in mapping["actions"]:` taking up action i: the call the
\* invocation makes next, or its return when the list is exhausted.
LoopAt(st, mapping, i) ==
    IF i > Len(mapping["actions"])
    THEN [st EXCEPT !.pc = "done", !.i = i]
    ELSE [st EXCEPT !.pc = IF ResolveEnabled(mapping) THEN "resolve" ELSE "process",
                    !.i = i,
                    !.message = mapping["actions"][i]]

\* on_event entered with (event, match) for callback cb while the store is
\* ctx: lines 86-87 pick the first call.
Enter(cb, mapping, event, match, ctx) ==
    LET st == [NoFiring EXCEPT !.cb = cb, !.event = event, !.match = match]
    IN  IF Truthy(Get(mapping, "condition", None))
        THEN [st EXCEPT !.pc = "condition"]
        ELSE LoopAt(st, mapping, 1)

\* The operations of context_handler(key, **kwargs) on the shared dict, as
\* run for st.message by the invocation of thread f (lines 50-56).
HookPcs == {"test_in", "create", "load", "update"}

\* One operation of the hook: the invocation (pc "return" once the hook is
\* through), the store and the objects stored under its keys after it.
ContextHook(f, st, ctx, obj) ==
    LET key == st.message.key
    IN  CASE st.pc = "test_in" ->
                \* if not key in context:
                [st |-> [st EXCEPT !.pc = IF key \notin DOMAIN ctx THEN "create" ELSE "load"],
                 ctx |-> ctx, obj |-> obj]
          [] st.pc = "create" ->
                \* context[key] = {}: a new dict object, named after the thread
                [st |-> [st EXCEPT !.pc = "load"],
                 ctx |-> SetItem(ctx, key, EmptyDict),
                 obj |-> SetItem(obj, key, f)]
          [] st.pc = "load" ->
                \* the subscript of context[key].update(kwargs)
                [st |-> [st EXCEPT !.pc = "update", !.ref = obj[key]],
                 ctx |-> ctx, obj |-> obj]
          [] st.pc = "update" ->
                \* .update(kwargs) on the object loaded, which shows in the
                \* store only while it is the object stored under key
                [st |-> [st EXCEPT !.pc = "return", !.ref = None],
                 ctx |-> IF obj[key] = st.ref
                         THEN SetItem(ctx, key, DictUpdate(ctx[key], HookKwargs(st.message)))
                         ELSE ctx,
                 obj |-> obj]

\* One step of the invocation st thread f makes of the callback of mapping:
\* the call or hook operation st.pc names, made while the store is ctx (made
\* of the objects obj) and, for a call, ending as outcome says, and the
\* statements up to the next one. Gives the invocation, the store, its
\* objects and the mapping's stored templates after the step.
on_event(f, st, mapping, ctx, obj, outcome) ==
    CASE st.pc = "condition" ->
            LET called == [st EXCEPT !.trace = Append(@,
                               Entry("condition", 0, mapping["condition"], outcome, ctx))]
            IN  [st |-> IF outcome = "raise" THEN Raised(called)
                        ELSE IF ConditionMet(outcome) THEN LoopAt(called, mapping, 1)
                        ELSE [called EXCEPT !.pc = "done"],
                 ctx |-> ctx, obj |-> obj,
                 actions |-> mapping["actions"]]
      [] st.pc = "resolve" ->
            LET message == [val |-> mapping["actions"][st.i], shared |-> TRUE]
                copy == Deepcopy(message)
                resolved == keyword_resolve(copy.val,
                                Keywords(st.event, st.match, ctx),
                                outcome = "raise")
                called == [st EXCEPT !.trace = Append(@,
                               Entry("resolve", st.i, copy.val,
                                     IF resolved.raised THEN "raise" ELSE "ok", ctx))]
            IN  [st |-> IF resolved.raised
                        THEN Raised(called)
                        ELSE [called EXCEPT !.pc = "process", !.message = resolved.val],
                 ctx |-> ctx, obj |-> obj,
                 actions |-> [mapping["actions"] EXCEPT ![st.i] = StoredAfter(copy, resolved)]]
      [] st.pc = "process" ->
            \* edmp.process is entered: it raises, or goes on to the hook
            LET called == [st EXCEPT !.trace = Append(@,
                               Entry("process", st.i, st.message, outcome, ctx))]
            IN  [st |-> IF outcome = "raise"
                        THEN Raised(called)
                        ELSE IF CallsContextHandler(st.message) /\ KeyGiven(st.message.key)
                             THEN [called EXCEPT !.pc = "test_in"]
                             ELSE LoopAt(called, mapping, NextAction(st.i)),
                 ctx |-> ctx, obj |-> obj,
                 actions |-> mapping["actions"]]
      [] st.pc \in HookPcs ->
            LET hook == ContextHook(f, st, ctx, obj)
            IN  [st |-> IF hook.st.pc = "return"
                        THEN LoopAt(hook.st, mapping, NextAction(st.i))
                        ELSE hook.st,
                 ctx |-> hook.ctx, obj |-> hook.obj,
                 actions |-> mapping["actions"]]

----------------------------------------------------------------------------
(* start: event_reactor.py lines 68-130.                                   *)

\* The if/elif chain that picks the match type of a mapping.
MatchTypeReversed(mapping) ==
    IF "fnmatch" \in DOMAIN mapping THEN "fnmatch"
    ELSE IF "endswith" \in DOMAIN mapping THEN "endswith"
    ELSE IF "startswith" \in DOMAIN mapping THEN "startswith"
    ELSE IF "regex" \in DOMAIN mapping THEN "regex"
    ELSE None

MatchType(mapping) ==
    IF "regex" \in DOMAIN mapping THEN "regex"
    ELSE IF "startswith" \in DOMAIN mapping THEN "startswith"
    ELSE IF "endswith" \in DOMAIN mapping THEN "endswith"
    ELSE IF "fnmatch" \in DOMAIN mapping THEN "fnmatch"
    ELSE None

\* The mapping an on_event built in iteration i stays bound to: the default
\* argument `mapping=mapping` is evaluated when the function is defined. last
\* is what the loop variable holds once the loop has ended.
BindLate(i, last) == last

BindMapping(i, last) == i

RECURSIVE RegisterFromStops(_, _, _)
\* `continue  # Skip mapping` of line 117 goes on with the next mapping.
RegisterFromStops(maps, i, registered) ==
    IF i > Len(maps)
    THEN registered
    ELSE LET match_type == MatchType(maps[i])
         IN  IF match_type = None
             THEN registered
             ELSE RegisterFromStops(maps, i + 1,
                      Append(registered,
                             [pattern |-> maps[i][match_type],
                              match_type |-> match_type,
                              idx |-> i,
                              mapping |-> BindMapping(i, Len(maps))]))

RECURSIVE RegisterFrom(_, _, _)
\* The registration loop from mapping i on; registered is what has been
\* handed to edmp.register_event_matcher so far.
RegisterFrom(maps, i, registered) ==
    IF i > Len(maps)
    THEN registered
    ELSE LET match_type == MatchType(maps[i])
         IN  IF match_type = None
             THEN RegisterFrom(maps, i + 1, registered)
             ELSE RegisterFrom(maps, i + 1,
                      Append(registered,
                             [pattern |-> maps[i][match_type],
                              match_type |-> match_type,
                              idx |-> i,
                              mapping |-> BindMapping(i, Len(maps))]))

\* The calls start makes up to and including edmp.run when the startup step
\* `fail` raises ("none": no step does): salt.loader.returners, edmp.init,
\* one edmp.register_event_matcher per entry of registered, edmp.run. The
\* `except Exception: ... raise` of lines 125-127 hands the exception on.
StartCallsSwallowing(fail, registered) ==
    <<"returners", "init">> \o [i \in DOMAIN registered |-> "register"] \o <<"run">>

StartCalls(fail, registered) ==
    CASE fail = "returners" -> <<"returners">>
      [] fail = "init" -> <<"returners", "init">>
      [] OTHER -> <<"returners", "init">>
                  \o [i \in DOMAIN registered |-> "register"] \o <<"run">>

\* start(mappings) up to its call of edmp.run; fail names the startup step
\* that raises, if any.
Start(fail) ==
    /\ phase = "init"
    /\ LET registered == RegisterFrom(mappings, 1, << >>)
           calls == StartCalls(fail, registered)
       IN  /\ startup' = [fault |-> fail, calls |-> calls]
           /\ matchers' = SubSeq(registered, 1,
                                 Cardinality({j \in DOMAIN calls : calls[j] = "register"}))
           /\ phase' = IF calls[Len(calls)] = "run" THEN "running" ELSE "failed"
    /\ lastOp' = "start"
    /\ UNCHANGED <<context, ctxObj, mappings, firing, call, ret, threadVars, stnVars>>

\* Thread f of the message processor invokes registered callback cb for a
\* matching event; each thread invokes one callback.
OnEvent(f, cb, event, match) ==
    /\ phase = "running"
    /\ firing[f].pc = "idle"
    /\ firing' = [firing EXCEPT ![f] =
                     Enter(cb, mappings[matchers[cb].mapping], event, match, context)]
    /\ lastOp' = "on_event"
    /\ UNCHANGED <<context, ctxObj, mappings, phase, matchers, startup, call, ret,
                   threadVars, stnVars>>

\* The invocation of thread f makes the call or hook operation it has reached.
CallOut(f, pc, outcome) ==
    /\ firing[f].pc = pc
    /\ LET rule == matchers[firing[f].cb].mapping
           done == on_event(f, firing[f], mappings[rule], context, ctxObj, outcome)
       IN  /\ firing' = [firing EXCEPT ![f] = done.st]
           /\ context' = done.ctx
           /\ ctxObj' = done.obj
           /\ mappings' = [mappings EXCEPT ![rule]["actions"] = done.actions]
    /\ lastOp' = "on_event"
    /\ UNCHANGED <<phase, matchers, startup, call, ret, threadVars, stnVars>>

\* keyword_resolve(condition, ...) of line 88.
Condition(f, result) == CallOut(f, "condition", result)

\* keyword_resolve(copy.deepcopy(message), ...) of line 98.
Resolve(f, outcome) == CallOut(f, "resolve", outcome)

\* edmp.process(...) of lines 101 and 103 is entered.
Dispatch(f, outcome) == CallOut(f, "process", outcome)

\* The context hook run by that edmp.process call: `if not key in context:`
HookTestIn(f) == CallOut(f, "test_in", "ok")

\* context[key] = {}
HookCreate(f) == CallOut(f, "create", "ok")

\* the subscript of context[key].update(kwargs)
HookLoad(f) == CallOut(f, "load", "ok")

\* .update(kwargs), `return context` and the return of edmp.process
HookUpdate(f) == CallOut(f, "update", "ok")

Init ==
    /\ context = EmptyDict
    /\ ctxObj = EmptyDict
    /\ mappings \in Configs
    /\ phase = "init"
    /\ matchers = << >>
    /\ firing = [f \in Firings |-> NoFiring]
    /\ lastOp = "none"
    /\ call = NoCall
    /\ ret = None
    /\ startup = NotStarted
    /\ ThreadsIdle
    /\ StnIdle

Next ==
    \/ \E fail \in {"none", "returners", "init"} : Start(fail)
    \/ \E f \in Firings, cb \in 1..Len(matchers) :
          \E event \in Events, match \in Matches : OnEvent(f, cb, event, match)
    \/ \E f \in Firings, result \in ConditionOutcomes : Condition(f, result)
    \/ \E f \in Firings, outcome \in CallOutcomes : Resolve(f, outcome)
    \/ \E f \in Firings, outcome \in CallOutcomes : Dispatch(f, outcome)
    \/ \E f \in Firings : HookTestIn(f)
    \/ \E f \in Firings : HookCreate(f)
    \/ \E f \in Firings : HookLoad(f)
    \/ \E f \in Firings : HookUpdate(f)

Spec == Init /\ [][Next]_vars

----------------------------------------------------------------------------
(* What the claims about a firing speak of.                                *)

\* The invocation of thread f has ended: on_event returned or an exception
\* left it.
Fired(f) == firing[f].pc = "done"

\* The mapping the callback invoked by f was built from: the one of the
\* loop iteration that registered it.
Built(f) == mappings[matchers[firing[f].cb].idx]

\* The positions of the calls of one kind the invocation of f made.
Calls(f, op) == {j \in DOMAIN firing[f].trace : firing[f].trace[j].op = op}

\* The invocation of f got past its condition check (or the mapping has none).
ConditionPassed(f) ==
    \/ ~Truthy(Get(Built(f), "condition", None))
    \/ \E j \in Calls(f, "condition") : firing[f].trace[j].result = "truthy"

\* The messages the invocation of f handed to edmp.process, in order.
Handed(f) == SelectSeq(firing[f].trace, LAMBDA e : e.op = "process")

\* The step taken is a call of kind op made by the invocation of f.
Made(f, op) ==
    /\ firing[f].pc = op
    /\ firing'[f] # firing[f]

\* The last call the invocation st has made.
LastCall(st) == st.trace[Len(st.trace)]

\* C1: a condition evaluation error is treated as condition-false. Whenever
\* the resolver raises while evaluating the condition, the firing dispatches
\* zero actions, leaves the context store unchanged, and no exception escapes
\* on_event.
C1_ConditionErrorIsFalse ==
    [][\A f \in Firings :
          (/\ Made(f, "condition")
           /\ LastCall(firing'[f]).result = "raise")
          => (/\ \A j \in DOMAIN firing'[f].trace : firing'[f].trace[j].op # "process"
              /\ context' = context
              /\ ~firing'[f].raised)]_vars

\* C2: a dispatch error does not cancel sibling actions. If edmp.process
\* fails on action ai, every later action is still taken up (handed to
\* edmp.process, or stopped by its own resolution error) and the failure
\* does not escape on_event.
C2_DispatchErrorIsolated ==
    \A f \in Firings :
        Fired(f) =>
            \A j \in Calls(f, "process") :
                firing[f].trace[j].result = "raise" =>
                    /\ ~firing[f].raised
                    /\ \A i \in (firing[f].trace[j].idx + 1)..Len(Built(f)["actions"]) :
                          \E l \in DOMAIN firing[f].trace :
                              /\ firing[f].trace[l].idx = i
                              /\ \/ firing[f].trace[l].op = "process"
                                 \/ /\ firing[f].trace[l].op = "resolve"
                                    /\ firing[f].trace[l].result = "raise"

\* C3: a template resolution error only suppresses its own action. If
\* keyword_resolve raises for action ai, ai is not dispatched, every other
\* action of the rule is still resolved (and dispatched when its resolution
\* succeeds), and no exception escapes on_event.
C3_ResolveErrorIsolated ==
    \A f \in Firings :
        Fired(f) =>
            \A j \in Calls(f, "resolve") :
                firing[f].trace[j].result = "raise" =>
                    /\ ~firing[f].raised
                    /\ \A l \in Calls(f, "process") :
                          firing[f].trace[l].idx # firing[f].trace[j].idx
                    /\ \A i \in (1..Len(Built(f)["actions"])) \ {firing[f].trace[j].idx} :
                          \E l \in Calls(f, "resolve") :
                              /\ firing[f].trace[l].idx = i
                              /\ firing[f].trace[l].result = "ok" =>
                                    \E m \in Calls(f, "process") : firing[f].trace[m].idx = i

\* C5: each registered callback is permanently bound to the rule it was
\* built from. Whichever callback is invoked, and whatever another
\* invocation does meanwhile, the condition it evaluates is the condition of
\* the mapping of its own loop iteration, the templates it resolves are that
\* mapping's actions, and the messages it dispatches are derived from that
\* mapping's actions (as resolved by the call before when that mapping
\* enables keyword_resolve, as they are otherwise).
C5_CallbackBoundToOwnRule ==
    \A f \in Firings :
        Fired(f) =>
            /\ (Calls(f, "condition") # {}) = Truthy(Get(Built(f), "condition", None))
            /\ (Calls(f, "resolve") # {}) => Get(Built(f), "keyword_resolve", FALSE)
            /\ \A j \in DOMAIN firing[f].trace :
                  LET e == firing[f].trace[j]
                  IN  CASE e.op = "condition" -> e.arg = Built(f)["condition"]
                        [] e.op = "resolve" ->
                              /\ e.idx \in 1..Len(Built(f)["actions"])
                              /\ e.arg = Built(f)["actions"][e.idx]
                        [] e.op = "process" ->
                              /\ e.idx \in 1..Len(Built(f)["actions"])
                              /\ IF Get(Built(f), "keyword_resolve", FALSE)
                                 THEN /\ j > 1
                                      /\ firing[f].trace[j - 1].op = "resolve"
                                      /\ firing[f].trace[j - 1].idx = e.idx
                                      /\ e.arg = keyword_resolve(Built(f)["actions"][e.idx],
                                                    Keywords(firing[f].event, firing[f].match,
                                                             firing[f].trace[j - 1].ctx),
                                                    FALSE).val
                                 ELSE e.arg = Built(f)["actions"][e.idx]

\* The callback of a mapping that is not the last one registered has
\* evaluated its condition and dispatched an action while the callback of
\* another mapping was invoked too.
C5_Witness ==
    \E f, g \in Firings :
        /\ Fired(f)
        /\ firing[f].cb < Len(matchers)
        /\ matchers[firing[f].cb].idx < Len(mappings)
        /\ Calls(f, "condition") # {}
        /\ Calls(f, "process") # {}
        /\ firing[g].cb \notin {0, firing[f].cb}

\* C8: no action template is resolved or dispatched before the rule's
\* condition is known truthy. In an invocation for a rule with a condition
\* set, at any moment, the first call is the condition evaluation, every
\* keyword_resolve of an action and every edmp.process call comes after it
\* and only when it was truthy, and a falsy (or failed) evaluation is
\* followed by no call at all.
C8_ConditionBeforeActions ==
    \A f \in Firings :
        (firing[f].pc # "idle" /\ Truthy(Get(Built(f), "condition", None))) =>
            /\ firing[f].trace # << >> => Calls(f, "condition") = {1}
            /\ \A j \in Calls(f, "resolve") \cup Calls(f, "process") :
                  j > 1 /\ firing[f].trace[1].result = "truthy"
            /\ (firing[f].trace # << >> /\ firing[f].trace[1].result # "truthy") =>
                  (Len(firing[f].trace) = 1 /\ Fired(f))
            /\ firing[f].trace = << >> => firing[f].pc = "condition"

\* A truthy condition evaluation was followed by a resolution and a dispatch.
C8_Witness ==
    \E f \in Firings :
        /\ Fired(f)
        /\ Calls(f, "condition") = {1}
        /\ firing[f].trace[1].result = "truthy"
        /\ Calls(f, "resolve") # {}
        /\ Calls(f, "process") # {}

\* C9: actions of one rule firing are dispatched strictly in declared order.
\* For a firing that got past its condition, the messages handed to
\* edmp.process are those of a1, a2, ..., aN in this order, none skipped,
\* repeated or reordered.
C9_DispatchInDeclaredOrder ==
    \A f \in Firings :
        (Fired(f) /\ ConditionPassed(f)) =>
            /\ Len(Handed(f)) = Len(Built(f)["actions"])
            /\ \A i \in DOMAIN Handed(f) : Handed(f)[i].idx = i

\* C10: with keyword_resolve enabled, dispatching never mutates the stored
\* template. No step of an invocation for a rule that enables
\* keyword_resolve changes any entry of any mapping's actions, so every
\* firing resolves from the template as configured.
C10_TemplateNeverMutated ==
    [][\A f \in Firings :
          (/\ firing'[f] # firing[f]
           /\ Get(mappings[matchers[firing'[f].cb].mapping], "keyword_resolve", FALSE))
          => mappings' = mappings]_vars

\* A firing has dispatched a message that differs from its template (a
\* placeholder was substituted) and the template is stored as configured.
C10_Witness ==
    \E f \in Firings :
        /\ Fired(f)
        /\ Get(Built(f), "keyword_resolve", FALSE)
        /\ mappings \in Configs
        /\ \E j \in Calls(f, "process") :
              /\ firing[f].trace[j].arg # Built(f)["actions"][firing[f].trace[j].idx]
              /\ Built(f)["actions"][firing[f].trace[j].idx].arg = "$event"

\* C11: if a rule has no condition, its actions always fire on any match.
\* Every invocation of on_event for a mapping without a condition makes no
\* condition evaluation and hands exactly one message per configured action
\* to edmp.process.
C11_NoConditionAlwaysFires ==
    \A f \in Firings :
        (Fired(f) /\ ~Truthy(Get(Built(f), "condition", None))) =>
            /\ Calls(f, "condition") = {}
            /\ Len(Handed(f)) = Len(Built(f)["actions"])
            /\ \A i \in DOMAIN Handed(f) : Handed(f)[i].idx = i

\* C12: with keyword_resolve false or absent, the message handed to
\* edmp.process for each action is identical to the configured template:
\* keyword_resolve is never applied to an action and no placeholder is
\* substituted, whatever the event and the match.
C12_UnresolvedIsTemplate ==
    \A f \in Firings :
        (firing[f].pc # "idle" /\ ~Get(Built(f), "keyword_resolve", FALSE)) =>
            /\ Calls(f, "resolve") = {}
            /\ \A j \in Calls(f, "process") :
                  firing[f].trace[j].arg = Built(f)["actions"][firing[f].trace[j].idx]

\* A template holding a placeholder was handed to edmp.process as it is
\* configured, by a mapping that does not enable keyword_resolve.
C12_Witness ==
    \E f \in Firings :
        /\ Fired(f)
        /\ ~Get(Built(f), "keyword_resolve", FALSE)
        /\ \E j \in Calls(f, "process") :
              /\ firing[f].trace[j].arg.arg = "$event"
              /\ firing[f].trace[j].result = "ok"

\* C16: within one firing with keyword_resolve enabled, resolution and
\* dispatch are interleaved per action and read the live store, so a context
\* merge performed by the dispatch of ai is visible to the resolution of
\* a(i+1). Whenever the template of a(i+1) has been handed to
\* keyword_resolve, the call before it was the edmp.process call of ai, which
\* returned, and when ai was a context message, the store that resolution
\* was given holds the sub-key ai merged under its key (with the value ai
\* merged or one a later merge wrote over it).
C16_MergeVisibleToNextAction ==
    \A f \in Firings :
        (firing[f].pc # "idle" /\ Get(Built(f), "keyword_resolve", FALSE)) =>
            \A j \in Calls(f, "resolve") :
                LET e == firing[f].trace[j]
                IN  e.idx > 1 =>
                        /\ j > 1
                        /\ firing[f].trace[j - 1].op = "process"
                        /\ firing[f].trace[j - 1].idx = e.idx - 1
                        /\ firing[f].trace[j - 1].result = "ok"
                        /\ LET merged == firing[f].trace[j - 1].arg
                           IN  (CallsContextHandler(merged) /\ KeyGiven(merged.key)) =>
                                  /\ merged.key \in DOMAIN e.ctx
                                  /\ merged.sub \in DOMAIN e.ctx[merged.key]

----------------------------------------------------------------------------
(* start over every shape of mapping: SpecReg starts the engine on lists  *)
(* of mappings that carry any combination of the four matcher keys, or a   *)
(* key start does not know.                                                *)

\* The keys lines 106-113 look for, in the order of the if/elif chain.
Precedence == <<"regex", "startswith", "endswith", "fnmatch">>

MatcherKinds == {Precedence[p] : p \in DOMAIN Precedence}

\* The pattern a mapping gives under each key; "contains" is a key start
\* does not recognise.
PatternOf ==
    [regex |-> "^evt/(.*)", startswith |-> "evt/", endswith |-> "/on",
     fnmatch |-> "evt/*", contains |-> "evt"]

MappingWith(kinds) ==
    [k \in kinds \cup {"actions"} |->
        IF k = "actions" THEN <<Echo("hello")>> ELSE PatternOf[k]]

RegMappings ==
    {MappingWith(kinds) : kinds \in SUBSET MatcherKinds} \cup {MappingWith({"contains"})}

RegConfigs == UNION {[1..n -> RegMappings] : n \in 0..MaxMappings}

InitReg ==
    /\ context = EmptyDict
    /\ ctxObj = EmptyDict
    /\ mappings \in RegConfigs
    /\ phase = "init"
    /\ matchers = << >>
    /\ firing = [f \in Firings |-> NoFiring]
    /\ lastOp = "none"
    /\ call = NoCall
    /\ ret = None
    /\ startup = NotStarted
    /\ ThreadsIdle
    /\ StnIdle

NextReg == \E fail \in {"none", "returners", "init"} : Start(fail)

SpecReg == InitReg /\ [][NextReg]_vars

\* A mapping start can register: it carries one of the four matcher keys.
Valid(mapping) == DOMAIN mapping \cap MatcherKinds # {}

\* The calls of edmp.register_event_matcher start has made.
Registered == {j \in DOMAIN startup.calls : startup.calls[j] = "register"}

\* C13: a rule with an unrecognized matcher kind is skipped without aborting
\* startup. When no startup step raises, start registers one event matcher
\* for every mapping that carries a regex/startswith/endswith/fnmatch key, in
\* the order of the list, nothing for a mapping that carries none of them,
\* goes on with the remaining mappings and reaches edmp.run.
C13_InvalidMappingSkipped ==
    (lastOp = "start" /\ startup.fault = "none") =>
        /\ phase = "running"
        /\ startup.calls[Len(startup.calls)] = "run"
        /\ Cardinality(Registered) = Len(matchers)
        /\ {matchers[j].idx : j \in DOMAIN matchers}
              = {i \in DOMAIN mappings : Valid(mappings[i])}
        /\ \A j, k \in DOMAIN matchers : j < k => matchers[j].idx < matchers[k].idx

\* start skipped a first mapping with an unknown key, registered the mapping
\* after it and entered edmp.run.
C13_Witness ==
    /\ phase = "running"
    /\ Len(mappings) >= 2
    /\ ~Valid(mappings[1])
    /\ "contains" \in DOMAIN mappings[1]
    /\ Valid(mappings[2])
    /\ \E j \in DOMAIN matchers : matchers[j].idx = 2
    /\ startup.calls[Len(startup.calls)] = "run"

\* C15: a startup-fatal error aborts the whole engine. If loading returners
\* or edmp.init raises inside start, the exception reaches start's caller, no
\* event matcher is registered and edmp.run is never entered.
C15_StartupErrorAborts ==
    (lastOp = "start" /\ startup.fault \in {"returners", "init"}) =>
        /\ phase = "failed"
        /\ matchers = << >>
        /\ \A j \in DOMAIN startup.calls : startup.calls[j] \notin {"register", "run"}
        /\ startup.calls[Len(startup.calls)] = startup.fault

\* edmp.init raised in a start whose list holds a mapping it could have
\* registered.
C15_Witness ==
    /\ lastOp = "start"
    /\ startup.fault = "init"
    /\ phase = "failed"
    /\ \E i \in DOMAIN mappings : Valid(mappings[i])

\* The first key of Precedence a mapping carries.
FirstKind(mapping) ==
    Precedence[CHOOSE p \in DOMAIN Precedence :
                  /\ Precedence[p] \in DOMAIN mapping
                  /\ \A q \in 1..(p - 1) : Precedence[q] \notin DOMAIN mapping]

\* C17: exactly one matcher kind is selected per valid mapping. For a mapping
\* that carries one or more of the keys regex, startswith, endswith, fnmatch,
\* start registers exactly one event matcher, of the first present key in the
\* precedence regex > startswith > endswith > fnmatch, with that key's value
\* as the pattern.
C17_OneKindByPrecedence ==
    phase = "running" =>
        \A i \in DOMAIN mappings :
            Valid(mappings[i]) =>
                /\ Cardinality({j \in DOMAIN matchers : matchers[j].idx = i}) = 1
                /\ \A j \in DOMAIN matchers :
                      matchers[j].idx = i =>
                          /\ matchers[j].match_type = FirstKind(mappings[i])
                          /\ matchers[j].pattern = mappings[i][FirstKind(mappings[i])]

\* A mapping with the keys startswith, endswith and fnmatch was registered
\* once, as a startswith matcher with the startswith pattern.
C17_Witness ==
    /\ phase = "running"
    /\ \E i \in DOMAIN mappings :
          /\ DOMAIN mappings[i] \cap MatcherKinds = {"startswith", "endswith", "fnmatch"}
          /\ \E j \in DOMAIN matchers :
                /\ matchers[j].idx = i
                /\ matchers[j].match_type = "startswith"
                /\ matchers[j].pattern = PatternOf["startswith"]

----------------------------------------------------------------------------
(* The settings functions of the stn module (stn11xx.py). A text (a         *)
(* command, a line of an answer, a reported value) is the sequence of its   *)
(* pieces, cut so that every prefix the code tests is a whole number of     *)
(* pieces. The device and client.send_sync stand outside the repository.    *)

OK == <<"OK">>
Unknown == <<"?">>
On == <<"O", "N">>
Off == <<"O", "F", "F">>
Elm == <<"E", "L", "M">>
Banner == Elm \o <<"327 v1.3a">>

\* text.startswith(prefix)
StartsWith(text, prefix) ==
    /\ Len(text) >= Len(prefix)
    /\ SubSeq(text, 1, Len(prefix)) = prefix

\* "on" if flag else "off"
OnOff(flag) == IF flag THEN "on" ELSE "off"

\* The arguments of a call: None, True or False.
Flags == {None, "True", "False"}

\* The truth value of an argument, as in `if enable:`.
Bool(flag) == flag = "True"

\* "{:d}".format(invert)
Digit(flag) == IF Bool(flag) THEN "1" ELSE "0"

\* A command: its name followed by its formatted arguments.
Format(name, args) == <<name>> \o args

\* The label STSLCS prints a setting under, and the rule it prints after the
\* state of a trigger.
Label ==
    [pwr_ctrl |-> "PWR_CTRL", uart_sleep |-> "UART SLEEP", uart_wake |-> "UART WAKE",
     vl_sleep |-> "VL SLEEP", vl_wake |-> "VL WAKE", vchg_wake |-> "VCHG WAKE"]

Detail ==
    [uart_sleep |-> "1200 s", uart_wake |-> "0-30000 us",
     vl_sleep |-> "<13.00V FOR 600 s", vl_wake |-> ">13.20V FOR 1 s",
     vchg_wake |-> "0.20V IN 1000 ms"]

\* What STSLCS prints for a setting after its label.
Reading(dev, s) ==
    IF s = "pwr_ctrl"
    THEN <<"LOW POWER = ", IF dev[s] THEN "HIGH" ELSE "LOW">>
    ELSE (IF dev[s] THEN On ELSE Off) \o <<", ", Detail[s]>>

ReportOrder == <<"pwr_ctrl", "uart_sleep", "uart_wake", "vl_sleep", "vl_wake", "vchg_wake">>

\* The lines of the STSLCS answer.
Report(dev) ==
    [n \in DOMAIN ReportOrder |->
        <<Label[ReportOrder[n]], ": ">> \o Reading(dev, ReportOrder[n])]

\* The names of the commands that change a setting.
ChangeNames ==
    {"STSLPCP", "STSLU", "STSLUWP", "STSLUIT", "STSLVG", "STSLVGW",
     "STSLVL", "STSLVLW", "STSLVLS"}

\* What goes wrong with a command: nothing, or it is answered with "?" or
\* with no line at all.
Faults == {"none", "?", "empty"}

\* The lines the device answers a command with (its echo first when echo is
\* on), and the device after the command.
Answer(dev, cmd, fault) ==
    (IF dev.echo THEN <<cmd>> ELSE << >>)
        \o IF fault = "?" THEN <<Unknown>>
           ELSE IF fault = "empty" THEN << >>
           ELSE IF cmd[1] = "STSLCS" THEN Report(dev)
           ELSE IF cmd[1] = "ATZ" THEN <<Banner>>
           ELSE <<OK>>

Apply(dev, cmd, fault) ==
    IF fault # "none" THEN dev
    ELSE CASE cmd[1] = "STSLPCP" -> [dev EXCEPT !.pwr_ctrl = (cmd[2] = "1")]
           [] cmd[1] = "STSLU" -> [dev EXCEPT !.uart_sleep = (cmd[2] = "on"),
                                               !.uart_wake = (cmd[3] = "on")]
           [] cmd[1] = "STSLVL" -> [dev EXCEPT !.vl_sleep = (cmd[2] = "on"),
                                                !.vl_wake = (cmd[3] = "on")]
           [] cmd[1] = "STSLVG" -> [dev EXCEPT !.vchg_wake = (cmd[2] = "on")]
           [] OTHER -> dev

\* A call that has sent nothing yet: the function and its arguments, the
\* statement it is at (pc), the commands it has sent with their answers, the
\* exception it raised ("none": none) and its locals res, ret and kwargs.
Called(fn, flag, rule) ==
    [fn |-> fn, flag |-> flag, rule |-> rule, pc |-> "start", log |-> << >>,
     raised |-> "none", res |-> EmptyDict, ret |-> EmptyDict, kwargs |-> << >>]

\* raise exc: the call ends, unless an exception is already on its way up.
Raising(st, exc) ==
    IF st.raised = "none" THEN [st EXCEPT !.raised = exc, !.pc = "done"] ELSE st

\* The call goes on to the statement pc unless it has raised.
Goto(st, pc) == IF st.raised # "none" THEN st ELSE [st EXCEPT !.pc = pc]

\* return ret
Returning(st) == Goto(st, "done")

\* _query(cmd): one client.send_sync round trip with the device as it is at
\* that moment; the answer is stamped with the position of the command in
\* the call.
_query(st, dev, cmd, fault) ==
    IF st.raised # "none"
    THEN st
    ELSE LET n == Len(st.log) + 1
             answer == Answer(dev, cmd, fault)
             lines == IF answer # << >> /\ answer[1] = cmd THEN Tail(answer) ELSE answer
             sent == [st EXCEPT !.log = Append(st.log, [cmd |-> cmd, stamp |-> n,
                                                        lines |-> lines])]
         IN  IF lines = << >>
             THEN Raising(sent, "CommandExecutionError")
             ELSE IF Len(lines) = 1
                  THEN [sent EXCEPT !.res = [_stamp |-> n, value |-> lines[1]]]
                  ELSE [sent EXCEPT !.res = [_stamp |-> n, values |-> lines]]

\* res.get("value", None) != "OK"
RefusedNever(res) == FALSE

Refused(res) == ~("value" \in DOMAIN res /\ res["value"] = OK)

\* _change(cmd)
_change(st, dev, cmd, fault) ==
    LET q == _query(st, dev, cmd, fault)
    IN  IF q.raised = "none" /\ Refused(q.res)
        THEN Raising(q, "CommandExecutionError")
        ELSE q

\* reset()
reset(st, dev, fault) ==
    LET q == _query(st, dev, <<"ATZ">>, fault)
    IN  IF q.raised = "none"
           /\ ~("value" \in DOMAIN q.res /\ StartsWith(q.res["value"], Elm))
        THEN Raising(q, "CommandExecutionError")
        ELSE q

\* The key a label of the STSLCS answer is stored under: lower case, with
\* "_" for " ".
KeyOf ==
    [label \in {Label[s] : s \in DOMAIN Label} |->
        CHOOSE s \in DOMAIN Label : Label[s] = label]

\* parsing.into_dict_parser(lines, root=root): every "label: value" line
\* becomes a key of root.
into_dict_parser(lines, root) ==
    LET at == [n \in DOMAIN lines |-> KeyOf[lines[n][1]]]
        keys == {at[n] : n \in DOMAIN lines}
    IN  [k \in (DOMAIN root) \cup keys |->
            IF k \in keys
            THEN LET n == CHOOSE m \in DOMAIN lines : at[m] = k
                 IN  SubSeq(lines[n], 3, Len(lines[n]))
            ELSE root[k]]

\* res.pop(key)
Pop(res, key) == [k \in (DOMAIN res) \ {key} |-> res[k]]

\* power_config()
power_config(st, dev, fault) ==
    LET q == _query(st, dev, <<"STSLCS">>, fault)
    IN  IF q.raised # "none"
        THEN q
        ELSE IF "values" \notin DOMAIN q.res
             THEN Raising(q, "KeyError")
             ELSE [q EXCEPT !.res = into_dict_parser(q.res["values"], Pop(q.res, "values"))]

\* The rule patterns of lines 12-15 and the rules a caller passes: None, or
\* one of two texts, the first of the form UART_WAKE_RULE_PATTERN matches,
\* the second of the form UART_SLEEP_RULE_PATTERN matches.
Rules == {None, "100-2000 us", "600 s"}

\* re.match(pattern, value).groupdict() as the values of the groups in the
\* order of the pattern; no group where the pattern does not match.
Groups(value, pattern) ==
    IF pattern = "UART_WAKE_RULE_PATTERN" /\ value = "100-2000 us" THEN <<"100", "2000">>
    ELSE IF pattern = "UART_SLEEP_RULE_PATTERN" /\ value = "600 s" THEN <<"600">>
    ELSE << >>

\* kwargs = _parse_rule(rule, pattern) if rule else defaults; a rule that
\* does not match raises.
_parse_rule(st, rule, pattern, defaults) ==
    IF st.raised # "none"
    THEN st
    ELSE IF rule = None
         THEN [st EXCEPT !.kwargs = defaults]
         ELSE IF Groups(rule, pattern) = << >>
              THEN Raising(st, "CommandExecutionError")
              ELSE [st EXCEPT !.kwargs = Groups(rule, pattern)]

\* ret.update(res)
RetUpdate(st) == IF st.raised # "none" THEN st ELSE [st EXCEPT !.ret = DictUpdate(st.ret, st.res)]

\* `if enable == None:` (`if invert == None:`)
ReadsNever(flag) == FALSE

Reads(flag) == flag = None

\* The read branch: ret["_stamp"] = res["_stamp"]; ret["value"] = res[key].
ReadOut(st, key) ==
    IF st.raised # "none"
    THEN st
    ELSE [st EXCEPT !.ret = [_stamp |-> st.res["_stamp"], value |-> st.res[key]]]

\* After the switch command: `if enable:` parses the rule and goes on to the
\* rule command, otherwise the reset is next.
AfterSwitch(st, pattern, defaults) ==
    IF Bool(st.flag)
    THEN Goto(_parse_rule(st, st.rule, pattern, defaults), "rule")
    ELSE Goto(st, "reset")

\* The rule command and the reset, the same statements in every writer.
RuleChange(st, dev, name, fault) ==
    Goto(RetUpdate(_change(st, dev, Format(name, st.kwargs), fault)), "reset")

Reset(st, dev, fault) == Returning(reset(st, dev, fault))

\* Each settings function, one client.send_sync round trip at a time: from
\* the statement st.pc, the command it sends to the device dev and the code
\* it runs on the answer, up to its next command or its end.

\* power_pin_polarity(invert)
power_pin_polarity(st, dev, fault) ==
    CASE st.pc = "start" ->
            IF Reads(st.flag)
            THEN Returning(ReadOut(power_config(st, dev, fault), "pwr_ctrl"))
            ELSE Goto(RetUpdate(_change(st, dev, Format("STSLPCP", <<Digit(st.flag)>>),
                                        fault)),
                      "reset")
      [] st.pc = "reset" -> Reset(st, dev, fault)

\* uart_wake(enable, rule=rule)
uart_wake(st, dev, fault) ==
    CASE st.pc = "start" ->
            IF Reads(st.flag)
            THEN Returning(ReadOut(power_config(st, dev, fault), "uart_wake"))
            ELSE Goto(power_config(st, dev, fault), "switch")
      [] st.pc = "switch" ->
            AfterSwitch(
                RetUpdate(_change(st, dev,
                    Format("STSLU", <<OnOff(StartsWith(st.res["uart_sleep"], On)),
                                      OnOff(Bool(st.flag))>>),
                    fault)),
                "UART_WAKE_RULE_PATTERN", <<"0", "30000">>)
      [] st.pc = "rule" -> RuleChange(st, dev, "STSLUWP", fault)
      [] st.pc = "reset" -> Reset(st, dev, fault)

\* uart_sleep(enable, rule=rule)
uart_sleep(st, dev, fault) ==
    CASE st.pc = "start" ->
            IF Reads(st.flag)
            THEN Returning(ReadOut(power_config(st, dev, fault), "uart_sleep"))
            ELSE Goto(power_config(st, dev, fault), "switch")
      [] st.pc = "switch" ->
            AfterSwitch(
                RetUpdate(_change(st, dev,
                    Format("STSLU", <<OnOff(Bool(st.flag)),
                                      OnOff(StartsWith(st.res["uart_wake"], On))>>),
                    fault)),
                "UART_SLEEP_RULE_PATTERN", <<"1200">>)
      [] st.pc = "rule" -> RuleChange(st, dev, "STSLUIT", fault)
      [] st.pc = "reset" -> Reset(st, dev, fault)

\* volt_change_wake(enable, rule=rule)
volt_change_wake(st, dev, fault) ==
    CASE st.pc = "start" ->
            IF Reads(st.flag)
            THEN Returning(ReadOut(power_config(st, dev, fault), "vchg_wake"))
            ELSE AfterSwitch(
                     RetUpdate(_change(st, dev, Format("STSLVG", <<OnOff(Bool(st.flag))>>),
                                       fault)),
                     "VOLT_CHANGE_RULE_PATTERN", <<"0.2", "1000">>)
      [] st.pc = "rule" -> RuleChange(st, dev, "STSLVGW", fault)
      [] st.pc = "reset" -> Reset(st, dev, fault)

\* volt_level_wake(enable, rule=rule)
volt_level_wake(st, dev, fault) ==
    CASE st.pc = "start" ->
            IF Reads(st.flag)
            THEN Returning(ReadOut(power_config(st, dev, fault), "vl_wake"))
            ELSE Goto(power_config(st, dev, fault), "switch")
      [] st.pc = "switch" ->
            AfterSwitch(
                RetUpdate(_change(st, dev,
                    Format("STSLVL", <<OnOff(StartsWith(st.res["vl_sleep"], On)),
                                       OnOff(Bool(st.flag))>>),
                    fault)),
                "VOLT_LEVEL_RULE_PATTERN", <<">13.2", "1">>)
      [] st.pc = "rule" -> RuleChange(st, dev, "STSLVLW", fault)
      [] st.pc = "reset" -> Reset(st, dev, fault)

\* volt_level_sleep(enable, rule=rule)
volt_level_sleep(st, dev, fault) ==
    CASE st.pc = "start" ->
            IF Reads(st.flag)
            THEN Returning(ReadOut(power_config(st, dev, fault), "vl_sleep"))
            ELSE Goto(power_config(st, dev, fault), "switch")
      [] st.pc = "switch" ->
            AfterSwitch(
                RetUpdate(_change(st, dev,
                    Format("STSLVL", <<OnOff(Bool(st.flag)),
                                       OnOff(StartsWith(st.res["vl_wake"], On))>>),
                    fault)),
                "VOLT_LEVEL_RULE_PATTERN", <<"<13.0", "600">>)
      [] st.pc = "rule" -> RuleChange(st, dev, "STSLVLS", fault)
      [] st.pc = "reset" -> Reset(st, dev, fault)

\* The devices a behaviour starts from: every state of a pair of triggers and
\* of a single setting, with and without echo; the two pairs start alike and
\* so do the two single settings.
InitDevices ==
    {d \in Devices : /\ d["vl_sleep"] = d["uart_sleep"]
                     /\ d["vl_wake"] = d["uart_wake"]
                     /\ d["vchg_wake"] = d["pwr_ctrl"]}

\* The callers: two threads of the minion, one call of a settings function
\* each, with nothing held between the round trips of a call.
Callers == {"A", "B"}

\* The rules worth passing with a flag: rule is read only under `if enable:`.
RulesFor(enable) == IF Bool(enable) THEN Rules ELSE {None}

\* The calls a caller can make.
StnCalls ==
    {Called("power_pin_polarity", flag, None) : flag \in Flags}
        \cup UNION {{Called(fn, flag, rule) : rule \in RulesFor(flag)} :
                      fn \in {"uart_wake", "uart_sleep", "volt_change_wake",
                              "volt_level_wake", "volt_level_sleep"},
                      flag \in Flags}

\* One round trip of caller t's call: the call is in the state `next`, and
\* the device has taken the command just sent.
StnStep(t, fn, fault, next) ==
    /\ stn[t].fn = fn
    /\ stn[t].pc # "done"
    /\ stn' = [stn EXCEPT ![t] = next]
    /\ device' = Apply(device, next.log[Len(next.log)].cmd, fault)
    /\ lastOp' = fn
    /\ UNCHANGED <<context, ctxObj, engineVars, call, ret, threadVars>>

PowerPinPolarity(t, fault) ==
    StnStep(t, "power_pin_polarity", fault, power_pin_polarity(stn[t], device, fault))

UartWake(t, fault) == StnStep(t, "uart_wake", fault, uart_wake(stn[t], device, fault))

UartSleep(t, fault) == StnStep(t, "uart_sleep", fault, uart_sleep(stn[t], device, fault))

VoltChangeWake(t, fault) ==
    StnStep(t, "volt_change_wake", fault, volt_change_wake(stn[t], device, fault))

VoltLevelWake(t, fault) ==
    StnStep(t, "volt_level_wake", fault, volt_level_wake(stn[t], device, fault))

VoltLevelSleep(t, fault) ==
    StnStep(t, "volt_level_sleep", fault, volt_level_sleep(stn[t], device, fault))

InitStn ==
    /\ context = EmptyDict
    /\ ctxObj = EmptyDict
    /\ lastOp = "none"
    /\ call = NoCall
    /\ ret = None
    /\ EngineIdle
    /\ ThreadsIdle
    /\ device \in InitDevices
    /\ stn \in [Callers -> StnCalls]

NextStn ==
    \E t \in Callers, fault \in Faults :
        \/ PowerPinPolarity(t, fault)
        \/ UartWake(t, fault)
        \/ UartSleep(t, fault)
        \/ VoltChangeWake(t, fault)
        \/ VoltLevelWake(t, fault)
        \/ VoltLevelSleep(t, fault)

SpecStn == InitStn /\ [][NextStn]_vars

----------------------------------------------------------------------------
(* What the claims about the stn settings functions speak of.              *)

\* Caller t's call is a write (its flag is given) or a read (it is None).
Wrote(t) == stn[t].flag # None

ReadBack(t) == stn[t].flag = None

\* Caller t has taken the step.
Stepped(t) == stn'[t] # stn[t]

\* The positions in the log of t's call of the commands with these names.
Sent(t, names) == {j \in DOMAIN stn[t].log : stn[t].log[j].cmd[1] \in names}

Changes(t) == Sent(t, ChangeNames)

Resets(t) == Sent(t, {"ATZ"})

\* The command at position j of t's call was answered with the single line "OK".
AnsweredOK(t, j) == stn[t].log[j].lines = <<OK>>

\* The change commands t's call is to send: the switch command and, when a
\* trigger is switched on, its rule command; power_pin_polarity has one.
Due(t) == IF stn[t].fn = "power_pin_polarity" \/ ~Bool(stn[t].flag) THEN 1 ELSE 2

\* C18: every settings writer (power_pin_polarity, uart_wake, uart_sleep,
\* volt_change_wake, volt_level_wake, volt_level_sleep) sends the ATZ reset
\* exactly once, after all of its change commands, and only if each of them
\* answered "OK". A reset is the last command of a call and follows all the
\* change commands the call is to send, each answered "OK"; a call that has
\* ended after sending them all with "OK" for each has sent the reset, once; a
\* change command answered with anything else raises CommandExecutionError
\* and is the last command of the call: no later change and no reset is sent.
\* This holds of each call whatever another caller sends in between.
C18_ResetOnceAfterAcceptedChanges ==
    \A t \in Callers :
        Wrote(t) =>
            /\ Cardinality(Resets(t)) <= 1
            /\ \A r \in Resets(t) :
                  /\ r = Len(stn[t].log)
                  /\ stn[t].pc = "done"
                  /\ Cardinality(Changes(t)) = Due(t)
                  /\ \A c \in Changes(t) : c < r /\ AnsweredOK(t, c)
            /\ (/\ stn[t].pc = "done"
                /\ Cardinality(Changes(t)) = Due(t)
                /\ \A c \in Changes(t) : AnsweredOK(t, c))
                  => Cardinality(Resets(t)) = 1
            /\ (stn[t].pc = "done" /\ stn[t].raised = "none")
                  => Cardinality(Resets(t)) = 1
            /\ \A c \in Changes(t) :
                  ~AnsweredOK(t, c) =>
                      /\ stn[t].raised = "CommandExecutionError"
                      /\ stn[t].pc = "done"
                      /\ c = Len(stn[t].log)
                      /\ Resets(t) = {}

\* A writer switched its trigger on, had its rule command refused and raised
\* without a reset, while the other caller's write ran from its first change
\* to its reset.
C18_Witness ==
    \E t \in Callers, u \in Callers :
        /\ t # u
        /\ Wrote(t)
        /\ Cardinality(Changes(t)) = 2
        /\ \E c \in Changes(t) : ~AnsweredOK(t, c) /\ stn[t].log[c].lines = <<Unknown>>
        /\ \E c \in Changes(t) : AnsweredOK(t, c)
        /\ stn[t].raised = "CommandExecutionError"
        /\ Resets(t) = {}
        /\ Wrote(u)
        /\ stn[u].pc = "done"
        /\ stn[u].raised = "none"
        /\ Cardinality(Resets(u)) = 1

\* The paired triggers: the command that sets both, the trigger a function
\* switches, its sibling, and the place of the sibling's flag in the command.
Pair ==
    [uart_wake |-> [cmd |-> "STSLU", own |-> "uart_wake", sibling |-> "uart_sleep", at |-> 2],
     uart_sleep |-> [cmd |-> "STSLU", own |-> "uart_sleep", sibling |-> "uart_wake", at |-> 3],
     volt_level_wake |->
         [cmd |-> "STSLVL", own |-> "vl_wake", sibling |-> "vl_sleep", at |-> 2],
     volt_level_sleep |->
         [cmd |-> "STSLVL", own |-> "vl_sleep", sibling |-> "vl_wake", at |-> 3]]

\* C19: toggling one trigger of a paired setting preserves the other.
\* uart_wake(enable) and uart_sleep(enable) send STSLU, volt_level_wake(enable)
\* and volt_level_sleep(enable) send STSLVL, with the sibling's flag "on"
\* exactly when the state the call was reported for the sibling starts with
\* "ON", so no step of the call changes whether the sibling is on.
C19_SiblingPreserved ==
    [][\A t \in Callers :
          (Stepped(t) /\ Wrote(t) /\ stn[t].fn \in DOMAIN Pair) =>
              LET p == Pair[stn[t].fn]
                  sent == stn'[t].log[Len(stn'[t].log)].cmd
              IN  /\ sent[1] = p.cmd =>
                        sent[p.at] = "on"
                            <=> (/\ Len(stn[t].res[p.sibling]) >= 2
                                 /\ stn[t].res[p.sibling][1] = "O"
                                 /\ stn[t].res[p.sibling][2] = "N")
                  /\ device'[p.sibling] = device[p.sibling]]_vars

\* The setting each function reads.
ReadKey ==
    [power_pin_polarity |-> "pwr_ctrl", uart_wake |-> "uart_wake",
     uart_sleep |-> "uart_sleep", volt_change_wake |-> "vchg_wake",
     volt_level_wake |-> "vl_wake", volt_level_sleep |-> "vl_sleep"]

\* C20: reading a setting changes nothing on the device. Called with
\* enable=None (invert=None for power_pin_polarity), each of the six functions
\* takes one step: it sends the STSLCS query and nothing else, no change
\* command and no ATZ, leaves the device as it is, and returns the value the
\* device holds for its setting at that moment with the stamp of the STSLCS
\* answer.
C20_ReadChangesNothing ==
    [][\A t \in Callers :
          (Stepped(t) /\ ReadBack(t)) =>
              /\ stn[t].log = << >>
              /\ Len(stn'[t].log) = 1
              /\ stn'[t].log[1].cmd = <<"STSLCS">>
              /\ stn'[t].pc = "done"
              /\ device' = device
              /\ stn'[t].raised = "none" =>
                    stn'[t].ret = [_stamp |-> stn'[t].log[1].stamp,
                                   value |-> Reading(device, ReadKey[stn[t].fn])]]_vars

\* uart_sleep() returned "OFF, ..." from an echoing device after the other
\* caller's uart_sleep(False) had switched the trigger off and before that
\* call sent its reset.
C20_Witness ==
    \E t \in Callers, u \in Callers :
        /\ t # u
        /\ ReadBack(t)
        /\ stn[t].fn = "uart_sleep"
        /\ stn[t].pc = "done"
        /\ stn[t].raised = "none"
        /\ device.echo
        /\ SubSeq(stn[t].ret["value"], 1, 3) = Off
        /\ stn[u].fn = "uart_sleep"
        /\ stn[u].flag = "False"
        /\ stn[u].pc = "reset"
        /\ stn[u].log[1].lines[2] = <<Label["uart_sleep"], ": ">> \o On \o <<", ", Detail["uart_sleep"]>>

============================================================================
